---- MODULE Spec2Model ----
(***************************************************************************)
(* Model of the post/comment canister of src/src/index.ts: two stable maps *)
(* (postStorage, commentStorage) and the nine exported calls.  Every call  *)
(* is one atomic step (an update or query call that never awaits).         *)
(* StableBTreeMap.get decodes a fresh copy of the stored record: a change  *)
(* to the copy reaches the store only through insert.                      *)
(***************************************************************************)
EXTENDS Integers, Sequences, FiniteSets, TLC

\* ------------------------------------------------------------------ bounds
\* The runs of Spec.
\* Number of ids uuidv4() hands out in a run (posts and comments together).
MaxIds == 3
\* Number of those ids handed to createPost.
MaxPosts == 2
\* Largest value ic.time() returns in a run.
MaxTime == 0
\* Largest likes counter a run drives a post to.
MaxLikes == 1

\* The runs of SpecLikes: fewer records, more likePost calls.
LikesMaxIds == 2
LikesMaxPosts == 2
LikesMaxTime == 0
LikesMaxLikes == 3

\* The runs of SpecClock: fewer records, a clock that advances.
ClockMaxIds == 2
ClockMaxPosts == 2
ClockMaxTime == 2
ClockMaxLikes == 1

\* The runs of SpecThread: one post, its comments and its likes.
ThreadMaxIds == 3
ThreadMaxPosts == 1
ThreadMaxTime == 0
ThreadMaxLikes == 2

\* ------------------------------------------------------------------ inputs
\* ic.caller(): the principals that issue calls.
Principals == {"X", "Y"}

\* The ids a caller may pass when uuidv4() hands out n ids in a run: every
\* one of them, so that a call may name a missing record or a record of the
\* other store.
Ids(n) == 1..n

\* PostPayload values the callers send.
PostPayloads ==
    { [title |-> "A", body |-> "B", image |-> ""],
      [title |-> "T2", body |-> "B2", image |-> "I2"] }

\* Comment contents the callers send.
Contents == {"hi", "yo"}

\* CommentPayload values the callers send.
CommentPayloads(n) == [content : Contents, postId : Ids(n)]

VARIABLES
    postStorage,      \* StableBTreeMap<string, Post>: id -> Post
    commentStorage,   \* StableBTreeMap<string, Comment>: id -> Comment
    issuedPosts,      \* how many ids uuidv4() has returned to createPost
    issuedComments,   \* how many ids uuidv4() has returned to commentOnPost
    now,              \* the last value ic.time() returned
    likeCalls,        \* history: per stored post, its likePost calls that returned Ok
    last              \* the call that ran last: its arguments and its Result

vars ==
    <<postStorage, commentStorage, issuedPosts, issuedComments, now, likeCalls, last>>

\* uuidv4() (lines 73, 163): a fresh id on every call.  Ids are only compared
\* with each other, so the n-th id handed out is modelled as n.
uuidv4 == issuedPosts + issuedComments + 1

\* ------------------------------------------------------- StableBTreeMap
\* insert(key, value): upsert.
Insert(m, k, v) == [x \in (DOMAIN m) \cup {k} |-> IF x = k THEN v ELSE m[x]]

\* remove(key).
Remove(m, k) == [x \in (DOMAIN m) \ {k} |-> m[x]]

\* The keys of a map in the map's (ascending key) order.
RECURSIVE SortedKeys(_)
SortedKeys(S) ==
    IF S = {} THEN <<>>
    ELSE LET k == CHOOSE x \in S : \A y \in S : x <= y
         IN <<k>> \o SortedKeys(S \ {k})

\* values(): a fresh array of all records, in key order.
Values(m) == LET ks == SortedKeys(DOMAIN m) IN [i \in 1..Len(ks) |-> m[ks[i]]]

\* ------------------------------------------------------------ Opt, Result
None == <<>>
Some(x) == <<x>>

\* The three outcomes of a call; the Err strings of the source carry a
\* "not found" or a "do not have permission" message.
Ok == "Ok"
NotFound == "NotFound"
Forbidden == "Forbidden"

\* The record of a call: op, caller (the queries do not read ic.caller() and
\* are recorded with "X"), the id argument (0 when there is none), the
\* payload argument, the outcome, and the posts and the comments inside
\* Result.Ok.  postsBefore and commentsBefore are history: the two stores as
\* the call found them.
Call(op, caller, id, payload, res, post, comments) ==
    [op |-> op, caller |-> caller, id |-> id, payload |-> payload,
     res |-> res, post |-> post, comments |-> comments,
     postsBefore |-> postStorage, commentsBefore |-> commentStorage]

\* ------------------------------------------------------------ array helpers
\* Array.prototype.indexOf: the first index of x (1-based), 0 when absent.
IndexOf(s, x) ==
    IF \E i \in 1..Len(s) : s[i] = x
    THEN CHOOSE i \in 1..Len(s) : s[i] = x /\ \A j \in 1..(i - 1) : s[j] # x
    ELSE 0

\* Array.prototype.splice(index, 1).
Splice(s, i) == [j \in 1..(Len(s) - 1) |-> IF j < i THEN s[j] ELSE s[j + 1]]

Init ==
    /\ postStorage = <<>>
    /\ commentStorage = <<>>
    /\ issuedPosts = 0
    /\ issuedComments = 0
    /\ now = 0
    /\ likeCalls = <<>>
    /\ last = Call("init", "X", 0, None, Ok, None, None)

\* ------------------------------------------------------------------ queries
\* getPosts (lines 56-58).
getPosts ==
    /\ last' = Call("getPosts", "X", 0, None, Ok, Values(postStorage), None)
    /\ UNCHANGED <<postStorage, commentStorage, issuedPosts, issuedComments,
                   now, likeCalls>>

\* The match of getPost (lines 63-66) on a Post store: Ok with the stored
\* post, or NotFound.
PostResult(posts, id) ==
    IF id \in DOMAIN posts
    THEN [res |-> Ok, post |-> Some(posts[id])]
    ELSE [res |-> NotFound, post |-> None]

\* The Result of getPost(id).
getPostResult(id) == PostResult(postStorage, id)

\* getPost (lines 62-67).
getPost(id) ==
    /\ last' = Call("getPost", "X", id, None, getPostResult(id).res,
                    getPostResult(id).post, None)
    /\ UNCHANGED <<postStorage, commentStorage, issuedPosts, issuedComments,
                   now, likeCalls>>

\* ResolveComments leaving the loop at the first id that does not resolve.
ResolveCommentsUntilMissing(ids) ==
    LET missing == {i \in 1..Len(ids) : ids[i] \notin DOMAIN commentStorage}
        n == IF missing = {} THEN Len(ids)
             ELSE (CHOOSE i \in missing : \A j \in missing : i <= j) - 1
    IN [i \in 1..n |-> commentStorage[ids[i]]]

\* The loop of getCommentsOnPost (lines 136-144): the listed ids that
\* commentStorage.get resolves, in the order listed.
RECURSIVE ResolveComments(_)
ResolveComments(ids) ==
    IF ids = <<>> THEN <<>>
    ELSE (IF Head(ids) \in DOMAIN commentStorage
          THEN <<commentStorage[Head(ids)]>> ELSE <<>>)
         \o ResolveComments(Tail(ids))

\* The Result of getCommentsOnPost(postId).
getCommentsOnPostResult(postId) ==
    IF postId \in DOMAIN postStorage
    THEN [res |-> Ok, comments |-> ResolveComments(postStorage[postId].comments)]
    ELSE [res |-> NotFound, comments |-> None]

\* getCommentsOnPost (lines 131-154).
getCommentsOnPost(postId) ==
    /\ last' = Call("getCommentsOnPost", "X", postId, None,
                    getCommentsOnPostResult(postId).res, None,
                    getCommentsOnPostResult(postId).comments)
    /\ UNCHANGED <<postStorage, commentStorage, issuedPosts, issuedComments,
                   now, likeCalls>>

\* ------------------------------------------------------------------ updates
\* NewPost with the update stamp set at creation.
NewPostStamped(id, t, caller, payload) ==
    [id |-> id, createdAt |-> t, updatedAt |-> Some(t), owner |-> caller,
     likes |-> 0, comments |-> <<>>,
     title |-> payload.title, body |-> payload.body, image |-> payload.image]

\* The object literal of createPost (lines 72-80).
NewPost(id, t, caller, payload) ==
    [id |-> id, createdAt |-> t, updatedAt |-> None, owner |-> caller,
     likes |-> 0, comments |-> <<>>,
     title |-> payload.title, body |-> payload.body, image |-> payload.image]

\* createPost (lines 71-84); t is what ic.time() returns.
createPost(caller, payload, t) ==
    /\ LET post == NewPost(uuidv4, t, caller, payload) IN
        /\ postStorage' = Insert(postStorage, post.id, post)
        /\ likeCalls' = Insert(likeCalls, post.id, 0)
        /\ last' = Call("createPost", caller, 0, Some(payload), Ok, Some(post), None)
    /\ issuedPosts' = issuedPosts + 1
    /\ now' = t
    /\ UNCHANGED <<commentStorage, issuedComments>>

\* UpdatedPost without the payload's image.
UpdatedPostKeepsImage(post, payload, t) ==
    [post EXCEPT !.title = payload.title, !.body = payload.body,
                 !.updatedAt = Some(t)]

\* UpdatedPost built like a new post: the likes counter starts again.
UpdatedPostLikesReset(post, payload, t) ==
    [post EXCEPT !.title = payload.title, !.body = payload.body,
                 !.image = payload.image, !.updatedAt = Some(t), !.likes = 0]

\* UpdatedPost with createdAt stamped as well.
UpdatedPostRestamped(post, payload, t) ==
    [post EXCEPT !.title = payload.title, !.body = payload.body,
                 !.image = payload.image, !.updatedAt = Some(t),
                 !.createdAt = t]

\* The object literal of updatePost (lines 100-104).
UpdatedPost(post, payload, t) ==
    [post EXCEPT !.title = payload.title, !.body = payload.body,
                 !.image = payload.image, !.updatedAt = Some(t)]

\* updatePost without the comparison of post.owner with ic.caller().
updatePostUnchecked(caller, id, payload, t) ==
    IF id \notin DOMAIN postStorage
    THEN /\ last' = Call("updatePost", caller, id, Some(payload), NotFound, None, None)
         /\ UNCHANGED <<postStorage, commentStorage, issuedPosts, issuedComments,
                       now, likeCalls>>
    ELSE LET updatedPost == UpdatedPost(postStorage[id], payload, t) IN
         /\ postStorage' = Insert(postStorage, postStorage[id].id, updatedPost)
         /\ now' = t
         /\ last' = Call("updatePost", caller, id, Some(payload), Ok,
                         Some(updatedPost), None)
         /\ UNCHANGED <<commentStorage, issuedPosts, issuedComments, likeCalls>>

\* updatePost (lines 88-113).
updatePost(caller, id, payload, t) ==
    IF id \notin DOMAIN postStorage
    THEN /\ last' = Call("updatePost", caller, id, Some(payload), NotFound, None, None)
         /\ UNCHANGED <<postStorage, commentStorage, issuedPosts, issuedComments,
                       now, likeCalls>>
    ELSE IF postStorage[id].owner # caller
    THEN /\ last' = Call("updatePost", caller, id, Some(payload), Forbidden, None, None)
         /\ UNCHANGED <<postStorage, commentStorage, issuedPosts, issuedComments,
                       now, likeCalls>>
    ELSE LET updatedPost == UpdatedPost(postStorage[id], payload, t) IN
         /\ postStorage' = Insert(postStorage, postStorage[id].id, updatedPost)
         /\ now' = t
         /\ last' = Call("updatePost", caller, id, Some(payload), Ok,
                         Some(updatedPost), None)
         /\ UNCHANGED <<commentStorage, issuedPosts, issuedComments, likeCalls>>

\* LikedPost writing the record without its updatedAt.
LikedPostUnstamped(post) == [post EXCEPT !.likes = @ + 1, !.updatedAt = None]

\* post.likes++ (line 120).
LikedPost(post) == [post EXCEPT !.likes = @ + 1]

\* likePost without the postStorage.insert of the incremented record.
likePostNotStored(caller, postId) ==
    IF postId \notin DOMAIN postStorage
    THEN /\ last' = Call("likePost", caller, postId, None, NotFound, None, None)
         /\ UNCHANGED <<postStorage, commentStorage, issuedPosts, issuedComments,
                       now, likeCalls>>
    ELSE /\ last' = Call("likePost", caller, postId, None, Ok,
                         Some(LikedPost(postStorage[postId])), None)
         /\ likeCalls' = [likeCalls EXCEPT ![postId] = @ + 1]
         /\ UNCHANGED <<postStorage, commentStorage, issuedPosts, issuedComments,
                       now>>

\* likePost (lines 117-127).
likePost(caller, postId) ==
    IF postId \notin DOMAIN postStorage
    THEN /\ last' = Call("likePost", caller, postId, None, NotFound, None, None)
         /\ UNCHANGED <<postStorage, commentStorage, issuedPosts, issuedComments,
                       now, likeCalls>>
    ELSE /\ LET post == LikedPost(postStorage[postId]) IN
             /\ postStorage' = Insert(postStorage, post.id, post)
             /\ last' = Call("likePost", caller, postId, None, Ok, Some(post), None)
         /\ likeCalls' = [likeCalls EXCEPT ![postId] = @ + 1]
         /\ UNCHANGED <<commentStorage, issuedPosts, issuedComments, now>>

\* NewComment with the comment's own id in postId.
NewCommentOwnId(id, caller, payload) ==
    [id |-> id, sender |-> caller, content |-> payload.content, postId |-> id]

\* The object literal of commentOnPost (line 163).
NewComment(id, caller, payload) ==
    [id |-> id, sender |-> caller, content |-> payload.content,
     postId |-> payload.postId]

\* PushComment with unshift in place of push.
PushCommentFront(post, commentId) ==
    [post EXCEPT !.comments = <<commentId>> \o @]

\* PushComment leaving the comments sequence without the new id.
PushCommentDropped(post, commentId) == post

\* post.comments.push(comment.id) (line 164).
PushComment(post, commentId) == [post EXCEPT !.comments = Append(@, commentId)]

\* commentOnPost with commentStorage.insert moved in front of the match on
\* postStorage.get.
commentOnPostInsertFirst(caller, payload) ==
    LET comment == NewComment(uuidv4, caller, payload) IN
    /\ commentStorage' = Insert(commentStorage, comment.id, comment)
    /\ issuedComments' = issuedComments + 1
    /\ IF payload.postId \notin DOMAIN postStorage
       THEN /\ last' = Call("commentOnPost", caller, payload.postId, Some(payload),
                            NotFound, None, None)
            /\ UNCHANGED postStorage
       ELSE LET post == PushComment(postStorage[payload.postId], comment.id) IN
            /\ postStorage' = Insert(postStorage, post.id, post)
            /\ last' = Call("commentOnPost", caller, payload.postId,
                            Some(payload), Ok, None, Some(comment))
    /\ UNCHANGED <<issuedPosts, now, likeCalls>>

\* commentOnPost (lines 158-176).
commentOnPost(caller, payload) ==
    IF payload.postId \notin DOMAIN postStorage
    THEN /\ last' = Call("commentOnPost", caller, payload.postId, Some(payload),
                         NotFound, None, None)
         /\ UNCHANGED <<postStorage, commentStorage, issuedPosts, issuedComments,
                       now, likeCalls>>
    ELSE /\ LET comment == NewComment(uuidv4, caller, payload)
                post == PushComment(postStorage[payload.postId], comment.id)
            IN  /\ commentStorage' = Insert(commentStorage, comment.id, comment)
                /\ postStorage' = Insert(postStorage, post.id, post)
                /\ last' = Call("commentOnPost", caller, payload.postId,
                                Some(payload), Ok, None, Some(comment))
         /\ issuedComments' = issuedComments + 1
         /\ UNCHANGED <<issuedPosts, now, likeCalls>>

\* The inner match of deleteComment (lines 188-196): the post as
\* postStorage.get returned it, with the id spliced out of its comments.
\* postStorage.get decodes a fresh copy of the stored record, so this value
\* is local to the call.
SplicedPost(post, id) ==
    LET index == IndexOf(post.comments, id) IN
    IF index > 0 THEN [post EXCEPT !.comments = Splice(@, index)] ELSE post

\* The Post store after the inner match of deleteComment (lines 188-196):
\* the spliced copy is never passed to postStorage.insert, so the store keeps
\* every record it had.
PostStorageAfterDeleteComment(comment) ==
    LET local == IF comment.postId \in DOMAIN postStorage
                 THEN Some(SplicedPost(postStorage[comment.postId], comment.id))
                 ELSE None
    IN postStorage

\* deleteComment that also lets the owner of the comment's post through.
deleteCommentByPostOwnerToo(caller, id) ==
    IF id \notin DOMAIN commentStorage
    THEN /\ last' = Call("deleteComment", caller, id, None, NotFound, None, None)
         /\ UNCHANGED <<postStorage, commentStorage, issuedPosts, issuedComments,
                       now, likeCalls>>
    ELSE IF /\ commentStorage[id].sender # caller
            /\ ~ ( /\ commentStorage[id].postId \in DOMAIN postStorage
                   /\ postStorage[commentStorage[id].postId].owner = caller )
    THEN /\ last' = Call("deleteComment", caller, id, None, Forbidden, None, None)
         /\ UNCHANGED <<postStorage, commentStorage, issuedPosts, issuedComments,
                       now, likeCalls>>
    ELSE LET comment == commentStorage[id] IN
         /\ postStorage' = PostStorageAfterDeleteComment(comment)
         /\ commentStorage' = Remove(commentStorage, id)
         /\ last' = Call("deleteComment", caller, id, None, Ok, None, Some(comment))
         /\ UNCHANGED <<issuedPosts, issuedComments, now, likeCalls>>

\* deleteComment without the commentStorage.remove.
deleteCommentKeepsRecord(caller, id) ==
    IF id \notin DOMAIN commentStorage
    THEN /\ last' = Call("deleteComment", caller, id, None, NotFound, None, None)
         /\ UNCHANGED <<postStorage, commentStorage, issuedPosts, issuedComments,
                       now, likeCalls>>
    ELSE IF commentStorage[id].sender # caller
    THEN /\ last' = Call("deleteComment", caller, id, None, Forbidden, None, None)
         /\ UNCHANGED <<postStorage, commentStorage, issuedPosts, issuedComments,
                       now, likeCalls>>
    ELSE LET comment == commentStorage[id] IN
         /\ postStorage' = PostStorageAfterDeleteComment(comment)
         /\ last' = Call("deleteComment", caller, id, None, Ok, None, Some(comment))
         /\ UNCHANGED <<commentStorage, issuedPosts, issuedComments, now, likeCalls>>

\* deleteComment (lines 180-206).
deleteComment(caller, id) ==
    IF id \notin DOMAIN commentStorage
    THEN /\ last' = Call("deleteComment", caller, id, None, NotFound, None, None)
         /\ UNCHANGED <<postStorage, commentStorage, issuedPosts, issuedComments,
                       now, likeCalls>>
    ELSE IF commentStorage[id].sender # caller
    THEN /\ last' = Call("deleteComment", caller, id, None, Forbidden, None, None)
         /\ UNCHANGED <<postStorage, commentStorage, issuedPosts, issuedComments,
                       now, likeCalls>>
    ELSE LET comment == commentStorage[id] IN
         /\ postStorage' = PostStorageAfterDeleteComment(comment)
         /\ commentStorage' = Remove(commentStorage, id)
         /\ last' = Call("deleteComment", caller, id, None, Ok, None, Some(comment))
         /\ UNCHANGED <<issuedPosts, issuedComments, now, likeCalls>>

\* CascadeRemove comparing comment.id, not comment.postId, with the post's id.
CascadeRemoveById(store, comments, id) ==
    IF id \in DOMAIN store THEN Remove(store, id) ELSE store

\* CascadeRemove leaving the loop after the first removal.
CascadeRemoveFirst(store, comments, id) ==
    LET hits == {i \in 1..Len(comments) : comments[i].postId = id} IN
    IF hits = {} THEN store
    ELSE Remove(store, comments[CHOOSE i \in hits : \A j \in hits : i <= j].id)

\* The loop of deletePost (lines 218-223) over the array values() returned.
RECURSIVE CascadeRemove(_, _, _)
CascadeRemove(store, comments, id) ==
    IF comments = <<>> THEN store
    ELSE LET comment == Head(comments) IN
         CascadeRemove(IF comment.postId = id THEN Remove(store, comment.id)
                       ELSE store,
                       Tail(comments), id)

\* deletePost with the loop over the comments moved in front of the
\* comparison of post.owner with ic.caller().
deletePostCascadeFirst(caller, id) ==
    IF id \notin DOMAIN postStorage
    THEN /\ last' = Call("deletePost", caller, id, None, NotFound, None, None)
         /\ UNCHANGED <<postStorage, commentStorage, issuedPosts, issuedComments,
                       now, likeCalls>>
    ELSE /\ commentStorage' = CascadeRemove(commentStorage, Values(commentStorage), id)
         /\ IF postStorage[id].owner # caller
            THEN /\ last' = Call("deletePost", caller, id, None, Forbidden, None, None)
                 /\ UNCHANGED <<postStorage, likeCalls>>
            ELSE /\ postStorage' = Remove(postStorage, id)
                 /\ likeCalls' = Remove(likeCalls, id)
                 /\ last' = Call("deletePost", caller, id, None, Ok,
                                 Some(postStorage[id]), None)
         /\ UNCHANGED <<issuedPosts, issuedComments, now>>

\* deletePost without the comparison of post.owner with ic.caller().
deletePostUnchecked(caller, id) ==
    IF id \notin DOMAIN postStorage
    THEN /\ last' = Call("deletePost", caller, id, None, NotFound, None, None)
         /\ UNCHANGED <<postStorage, commentStorage, issuedPosts, issuedComments,
                       now, likeCalls>>
    ELSE /\ commentStorage' = CascadeRemove(commentStorage, Values(commentStorage), id)
         /\ postStorage' = Remove(postStorage, id)
         /\ likeCalls' = Remove(likeCalls, id)
         /\ last' = Call("deletePost", caller, id, None, Ok,
                         Some(postStorage[id]), None)
         /\ UNCHANGED <<issuedPosts, issuedComments, now>>

\* deletePost (lines 210-233).
deletePost(caller, id) ==
    IF id \notin DOMAIN postStorage
    THEN /\ last' = Call("deletePost", caller, id, None, NotFound, None, None)
         /\ UNCHANGED <<postStorage, commentStorage, issuedPosts, issuedComments,
                       now, likeCalls>>
    ELSE IF postStorage[id].owner # caller
    THEN /\ last' = Call("deletePost", caller, id, None, Forbidden, None, None)
         /\ UNCHANGED <<postStorage, commentStorage, issuedPosts, issuedComments,
                       now, likeCalls>>
    ELSE /\ commentStorage' = CascadeRemove(commentStorage, Values(commentStorage), id)
         /\ postStorage' = Remove(postStorage, id)
         /\ likeCalls' = Remove(likeCalls, id)
         /\ last' = Call("deletePost", caller, id, None, Ok,
                         Some(postStorage[id]), None)
         /\ UNCHANGED <<issuedPosts, issuedComments, now>>

\* ------------------------------------------------------- specifications
\* The calls of a run in which uuidv4() hands out at most maxIds ids, at most
\* maxPosts of them to createPost, ic.time() never goes back and stays at or
\* below maxTime, and no post is liked more than maxLikes times.
NextFor(maxIds, maxPosts, maxTime, maxLikes) ==
    \/ getPosts
    \/ \E id \in Ids(maxIds) : getPost(id)
    \/ \E id \in Ids(maxIds) : getCommentsOnPost(id)
    \/ \E c \in Principals, p \in PostPayloads, t \in now..maxTime :
          /\ issuedPosts < maxPosts
          /\ issuedPosts + issuedComments < maxIds
          /\ createPost(c, p, t)
    \/ \E c \in Principals, id \in Ids(maxIds), p \in PostPayloads, t \in now..maxTime :
          updatePost(c, id, p, t)
    \/ \E c \in Principals, id \in Ids(maxIds) :
          /\ id \in DOMAIN postStorage => postStorage[id].likes < maxLikes
          /\ likePost(c, id)
    \/ \E c \in Principals, p \in CommentPayloads(maxIds) :
          /\ p.postId \in DOMAIN postStorage => issuedPosts + issuedComments < maxIds
          /\ commentOnPost(c, p)
    \/ \E c \in Principals, id \in Ids(maxIds) : deleteComment(c, id)
    \/ \E c \in Principals, id \in Ids(maxIds) : deletePost(c, id)

Next == NextFor(MaxIds, MaxPosts, MaxTime, MaxLikes)

Spec == Init /\ [][Next]_vars

NextLikes == NextFor(LikesMaxIds, LikesMaxPosts, LikesMaxTime, LikesMaxLikes)

SpecLikes == Init /\ [][NextLikes]_vars

NextClock == NextFor(ClockMaxIds, ClockMaxPosts, ClockMaxTime, ClockMaxLikes)

SpecClock == Init /\ [][NextClock]_vars

NextThread == NextFor(ThreadMaxIds, ThreadMaxPosts, ThreadMaxTime, ThreadMaxLikes)

SpecThread == Init /\ [][NextThread]_vars

\* ------------------------------------------------------------------ claims
\* The claims below are about the call that ran last: `last` holds its
\* arguments, its Result and the stores as it found them; postStorage and
\* commentStorage are the stores as it left them.

\* How often x occurs in s.
Count(s, x) == Cardinality({i \in 1..Len(s) : s[i] = x})

\* s holds x.
Contains(s, x) == Count(s, x) > 0

\* Every record of store `before` but those at the keys in `gone` is in
\* store `after` unchanged, and `after` holds nothing else.
SameBut(before, after, gone) ==
    /\ DOMAIN after = (DOMAIN before) \ gone
    /\ \A k \in DOMAIN after : after[k] = before[k]

\* The call left both stores as it found them.
StoresUntouched ==
    /\ postStorage = last.postsBefore
    /\ commentStorage = last.commentsBefore

\* C1: a deleteComment(c.id) call by c's sender, c's post existing,
\* succeeds, and afterwards c.id is no key of the Comment store and does not
\* occur in the stored comments sequence of c's post.
C1_SenderDeleteUnlistsComment ==
    ( /\ last.op = "deleteComment"
      /\ last.id \in DOMAIN last.commentsBefore
      /\ last.commentsBefore[last.id].sender = last.caller
      /\ last.commentsBefore[last.id].postId \in DOMAIN last.postsBefore )
    => LET postId == last.commentsBefore[last.id].postId
       IN /\ last.res = Ok
          /\ last.id \notin DOMAIN commentStorage
          /\ postId \in DOMAIN postStorage
          /\ ~Contains(postStorage[postId].comments, last.id)

\* C2 (invariant I2): every record of the Comment store has a postId that is
\* the id of a record of the Post store.
C2_NoOrphanedComment ==
    \A k \in DOMAIN commentStorage : commentStorage[k].postId \in DOMAIN postStorage

\* A post has just been deleted by its owner, with a comment of it, while
\* another post stays stored.
C2_Witness ==
    /\ last.op = "deletePost" /\ last.res = Ok
    /\ DOMAIN commentStorage # DOMAIN last.commentsBefore
    /\ postStorage # <<>>

C4_CommentOnPostAppends ==
    (last.op = "commentOnPost" /\ last.res = Ok)
    => /\ Len(last.comments) = 1
       /\ LET new == last.comments[1].id
              payload == last.payload[1]
              listed == getCommentsOnPostResult(payload.postId)
          IN /\ new \notin DOMAIN last.commentsBefore
             /\ SameBut(commentStorage, last.commentsBefore, {new})
             /\ new \in DOMAIN commentStorage
             /\ commentStorage[new] =
                   [id |-> new, sender |-> last.caller,
                    content |-> payload.content, postId |-> payload.postId]
             /\ payload.postId \in DOMAIN postStorage
             /\ postStorage[payload.postId].comments =
                   Append(last.postsBefore[payload.postId].comments, new)
             /\ Count(postStorage[payload.postId].comments, new) = 1
             /\ listed.res = Ok
             /\ Contains(listed.comments, commentStorage[new])

\* A comment has just been added to a post that already listed one.
C4_Witness ==
    /\ last.op = "commentOnPost" /\ last.res = Ok
    /\ Len(postStorage[last.id].comments) >= 2

\* C5: commentOnPost with a postId that is no key of the Post store returns
\* NotFound and leaves both stores as they were.
C5_CommentOnMissingPost ==
    ( /\ last.op = "commentOnPost"
      /\ last.id \notin DOMAIN last.postsBefore )
    => /\ last.res = NotFound
       /\ StoresUntouched

\* A comment on a missing post has just been refused while the stores hold
\* a post and a comment.
C5_Witness ==
    /\ last.op = "commentOnPost" /\ last.res = NotFound
    /\ postStorage # <<>> /\ commentStorage # <<>>

\* C6: updatePost on an existing post by a caller who is not its owner
\* returns Forbidden and leaves both stores as they were.
C6_UpdateByNonOwner ==
    ( /\ last.op = "updatePost"
      /\ last.id \in DOMAIN last.postsBefore
      /\ last.postsBefore[last.id].owner # last.caller )
    => /\ last.res = Forbidden
       /\ StoresUntouched

\* An update by a non-owner has just been refused, with a payload that
\* differs from the stored post.
C6_Witness ==
    /\ last.op = "updatePost" /\ last.res = Forbidden
    /\ last.payload[1].title # postStorage[last.id].title

\* C7: deleteComment on an existing comment by a caller who is not its sender,
\* the owner of the comment's post included, returns Forbidden and leaves both
\* stores as they were.
C7_DeleteCommentByNonSender ==
    ( /\ last.op = "deleteComment"
      /\ last.id \in DOMAIN last.commentsBefore
      /\ last.commentsBefore[last.id].sender # last.caller )
    => /\ last.res = Forbidden
       /\ StoresUntouched

\* The owner of a post has just been refused the deletion of another
\* principal's comment on it.
C7_Witness ==
    /\ last.op = "deleteComment" /\ last.res = Forbidden
    /\ last.id \in DOMAIN commentStorage
    /\ commentStorage[last.id].postId \in DOMAIN postStorage
    /\ postStorage[commentStorage[last.id].postId].owner = last.caller

\* The store an owner-checked call looks its id up in, as the call found it.
C8_Store ==
    IF last.op = "deleteComment" THEN last.commentsBefore ELSE last.postsBefore

\* The owner or sender recorded for the id of an owner-checked call.
C8_Owner ==
    IF last.op = "deleteComment"
    THEN last.commentsBefore[last.id].sender
    ELSE last.postsBefore[last.id].owner

\* C8: updatePost, deleteComment and deletePost return NotFound for every
\* caller when the id does not exist, Forbidden when it exists and the caller
\* is not the recorded owner or sender, and write to no store in either case.
C8_ExistenceThenOwnership ==
    last.op \in {"updatePost", "deleteComment", "deletePost"}
    => /\ last.id \notin DOMAIN C8_Store
             => (last.res = NotFound /\ StoresUntouched)
       /\ (last.id \in DOMAIN C8_Store /\ C8_Owner # last.caller)
             => (last.res = Forbidden /\ StoresUntouched)
       /\ last.res # Ok => StoresUntouched

\* A non-owner has just been refused the deletion of a post that has a comment.
C8_Witness ==
    /\ last.op = "deletePost" /\ last.res = Forbidden
    /\ \E k \in DOMAIN commentStorage : commentStorage[k].postId = last.id

\* C9: createPost succeeds, getPost of the returned id then returns a record
\* with likes 0, no comments, updatedAt absent, owner = caller and the
\* payload's title, body and image, and no other post and no comment changes.
C9_CreateThenGet ==
    last.op = "createPost"
    => /\ last.res = Ok
       /\ Len(last.post) = 1
       /\ LET new == last.post[1].id
              got == getPostResult(new)
              payload == last.payload[1]
          IN /\ new \notin DOMAIN last.postsBefore
             /\ got.res = Ok
             /\ got.post[1].id = new
             /\ got.post[1].likes = 0
             /\ got.post[1].comments = <<>>
             /\ got.post[1].updatedAt = None
             /\ got.post[1].owner = last.caller
             /\ got.post[1].title = payload.title
             /\ got.post[1].body = payload.body
             /\ got.post[1].image = payload.image
             /\ SameBut(postStorage, last.postsBefore, {new})
       /\ commentStorage = last.commentsBefore

\* A post has just been created beside another post and a comment.
C9_Witness ==
    /\ last.op = "createPost" /\ last.res = Ok
    /\ Cardinality(DOMAIN postStorage) = 2
    /\ commentStorage # <<>>

\* C10 (no lost like): the stored likes of a post is the number of likePost
\* calls on it that returned Ok, whatever calls ran in between.
C10_NoLostLike ==
    \A id \in DOMAIN postStorage : postStorage[id].likes = likeCalls[id]

\* A post liked twice that has also been updated and commented on.
C10_Witness ==
    \E id \in DOMAIN postStorage :
        /\ postStorage[id].likes >= 2
        /\ postStorage[id].updatedAt # None
        /\ postStorage[id].comments # <<>>

\* C11: a successful updatePost by the owner sets the stored post's title,
\* body and image to the payload's and updatedAt to the time of the call, and
\* leaves the post's id, owner, likes, createdAt and comments, every other
\* post and the whole Comment store as they were.
C11_UpdateOverlaysPayload ==
    ( /\ last.op = "updatePost"
      /\ last.id \in DOMAIN last.postsBefore
      /\ last.postsBefore[last.id].owner = last.caller )
    => /\ last.res = Ok
       /\ DOMAIN postStorage = DOMAIN last.postsBefore
       /\ LET old == last.postsBefore[last.id]
              new == postStorage[last.id]
              payload == last.payload[1]
          IN /\ new.title = payload.title
             /\ new.body = payload.body
             /\ new.image = payload.image
             /\ new.updatedAt = Some(now)
             /\ new.id = old.id
             /\ new.owner = old.owner
             /\ new.likes = old.likes
             /\ new.createdAt = old.createdAt
             /\ new.comments = old.comments
             /\ last.post = Some(new)
       /\ \A k \in (DOMAIN postStorage) \ {last.id} :
             postStorage[k] = last.postsBefore[k]
       /\ commentStorage = last.commentsBefore

\* The owner has just updated, at a later time than its creation and with a
\* new title, a post that has a like and a comment.
C11_Witness ==
    /\ last.op = "updatePost" /\ last.res = Ok
    /\ postStorage[last.id].title # last.postsBefore[last.id].title
    /\ postStorage[last.id].updatedAt # Some(postStorage[last.id].createdAt)
    /\ postStorage[last.id].likes > 0
    /\ postStorage[last.id].comments # <<>>

\* C12 (invariant I1): every id listed in a post's comments sequence that is
\* a key of the Comment store belongs to a comment whose postId is that post.
C12_ListedCommentsBelong ==
    \A p \in DOMAIN postStorage :
        \A i \in 1..Len(postStorage[p].comments) :
            LET k == postStorage[p].comments[i] IN
            k \in DOMAIN commentStorage => commentStorage[k].postId = postStorage[p].id

\* A post lists a stored comment while another post is stored.
C12_Witness ==
    /\ Cardinality(DOMAIN postStorage) = 2
    /\ \E p \in DOMAIN postStorage :
          \E i \in 1..Len(postStorage[p].comments) :
              postStorage[p].comments[i] \in DOMAIN commentStorage

\* C13 (invariant I3): over any call, a post that stays stored has likes no
\* lower than before, and its likes differ from before only when the call is
\* a likePost on that post that returned Ok, which adds exactly one.
C13_LikesOnlyGrowByLikePost ==
    \A p \in (DOMAIN postStorage) \cap (DOMAIN last.postsBefore) :
        LET old == last.postsBefore[p].likes
            new == postStorage[p].likes
        IN /\ new >= old
           /\ new # old =>
                 (last.op = "likePost" /\ last.id = p /\ last.res = Ok /\ new = old + 1)
           /\ (last.op = "likePost" /\ last.id = p) => new = old + 1

\* The owner has just updated a post that has two likes and a comment.
C13_Witness ==
    /\ last.op = "updatePost" /\ last.res = Ok
    /\ postStorage[last.id].likes >= 2
    /\ postStorage[last.id].comments # <<>>

\* C14: when a post P has a stored comment, deleteComment of it by a caller
\* other than its sender (P's owner included) returns Forbidden and changes
\* nothing; by its sender it returns Ok, and then getCommentsOnPost(P) does
\* not hold the deleted comment (and is empty when that was the only stored
\* comment of P) and getPost(P).likes is what it was.
C14_DeleteCommentScenario ==
    ( /\ last.op = "deleteComment"
      /\ last.id \in DOMAIN last.commentsBefore
      /\ last.commentsBefore[last.id].postId \in DOMAIN last.postsBefore )
    => LET deleted == last.commentsBefore[last.id]
           P == deleted.postId
           ofP == {k \in DOMAIN last.commentsBefore :
                      last.commentsBefore[k].postId = P}
           listed == getCommentsOnPostResult(P)
           got == getPostResult(P)
       IN /\ last.caller # deleted.sender =>
                (last.res = Forbidden /\ StoresUntouched)
          /\ last.caller = deleted.sender =>
                /\ last.res = Ok
                /\ listed.res = Ok
                /\ \A i \in 1..Len(listed.comments) :
                      listed.comments[i].id # last.id
                /\ ofP = {last.id} => listed.comments = <<>>
                /\ got.res = Ok
                /\ got.post[1].likes = last.postsBefore[P].likes

\* The sender, who is not the post's owner, has just deleted the only
\* comment of a post that has two likes.
C14_Witness ==
    /\ last.op = "deleteComment" /\ last.res = Ok
    /\ last.comments[1].postId \in DOMAIN postStorage
    /\ postStorage[last.comments[1].postId].owner # last.caller
    /\ postStorage[last.comments[1].postId].likes = 2
    /\ getCommentsOnPostResult(last.comments[1].postId).comments = <<>>

\* The id is a key of the Comment store.
C15_Resolves(k) == k \in DOMAIN commentStorage

\* C15: getCommentsOnPost(postId) returns NotFound when postId is no key of
\* the Post store; otherwise it returns Ok with the Comment-store records of
\* the ids of the post's comments sequence that are keys of the Comment
\* store, in the order of the sequence; it changes neither store.
C15_GetCommentsResolvesListed ==
    last.op = "getCommentsOnPost"
    => /\ StoresUntouched
       /\ last.id \notin DOMAIN postStorage =>
             last.res = NotFound
       /\ last.id \in DOMAIN postStorage =>
             LET live == SelectSeq(postStorage[last.id].comments, C15_Resolves)
             IN /\ last.res = Ok
                /\ Len(last.comments) = Len(live)
                /\ \A i \in 1..Len(live) : last.comments[i] = commentStorage[live[i]]

\* getCommentsOnPost has just returned one comment of a post that lists two
\* ids, the first of which no longer resolves.
C15_Witness ==
    /\ last.op = "getCommentsOnPost" /\ last.res = Ok
    /\ Len(postStorage[last.id].comments) = 2
    /\ postStorage[last.id].comments[1] \notin DOMAIN commentStorage
    /\ Len(last.comments) = 1

\* C16: a post enters the Post store with updatedAt absent; a successful
\* updatePost on it sets updatedAt to the time of that call; every other call
\* (a refused or not-found updatePost, likePost, commentOnPost, deleteComment,
\* any query) leaves updatedAt as it was, so once present it stays present and
\* holds the time of the most recent successful updatePost.
C16_UpdatedAtLifecycle ==
    \A p \in DOMAIN postStorage :
        LET updated == last.op = "updatePost" /\ last.res = Ok /\ last.id = p
        IN /\ p \notin DOMAIN last.postsBefore =>
                 postStorage[p].updatedAt = None
           /\ (p \in DOMAIN last.postsBefore /\ updated) =>
                 postStorage[p].updatedAt = Some(now)
           /\ (p \in DOMAIN last.postsBefore /\ ~updated) =>
                 postStorage[p].updatedAt = last.postsBefore[p].updatedAt
           /\ (p \in DOMAIN last.postsBefore /\ last.postsBefore[p].updatedAt # None) =>
                 postStorage[p].updatedAt # None

\* A post updated before has just been liked and keeps the time of its
\* update, which is later than its creation.
C16_Witness ==
    /\ last.op = "likePost" /\ last.res = Ok
    /\ postStorage[last.id].updatedAt # None
    /\ postStorage[last.id].updatedAt[1] > postStorage[last.id].createdAt

\* C17: a post that stays in the Post store keeps its id (the key it is
\* stored under), owner and createdAt through every call, whoever the caller;
\* a comment that stays in the Comment store keeps its id, content, sender
\* and postId.
C17_ImmutableFields ==
    /\ \A p \in (DOMAIN postStorage) \cap (DOMAIN last.postsBefore) :
          /\ postStorage[p].id = p
          /\ postStorage[p].id = last.postsBefore[p].id
          /\ postStorage[p].owner = last.postsBefore[p].owner
          /\ postStorage[p].createdAt = last.postsBefore[p].createdAt
    /\ \A c \in (DOMAIN commentStorage) \cap (DOMAIN last.commentsBefore) :
          /\ commentStorage[c].id = c
          /\ commentStorage[c] = last.commentsBefore[c]

\* The owner has just updated a post at a time later than its creation,
\* with a new title, while the post has a stored comment.
C17_Witness ==
    /\ last.op = "updatePost" /\ last.res = Ok
    /\ now > postStorage[last.id].createdAt
    /\ postStorage[last.id].title # last.postsBefore[last.id].title
    /\ \E c \in DOMAIN commentStorage : commentStorage[c].postId = last.id

\* The ids of the Comment-store records whose postId is the given post.
CommentsOf(postId) == {c \in DOMAIN commentStorage : commentStorage[c].postId = postId}

\* C18: for every stored post, the set of ids in its comments sequence is the
\* set of ids of the Comment-store records whose postId is the post's id, and
\* no id occurs twice in the sequence.
C18_CommentIndexTwoWay ==
    \A p \in DOMAIN postStorage :
        LET ids == postStorage[p].comments
        IN /\ {ids[i] : i \in 1..Len(ids)} = CommentsOf(p)
           /\ \A i, j \in 1..Len(ids) : ids[i] = ids[j] => i = j

\* The Comment-store records the full scan of deletePost(postId) removes.
RemovedByScan(postId) ==
    LET after == CascadeRemove(commentStorage, Values(commentStorage), postId)
    IN {commentStorage[c] : c \in (DOMAIN commentStorage) \ (DOMAIN after)}

\* C19: for every stored post, the set of comments getCommentsOnPost returns
\* for it is the set of Comment-store records that the full scan of
\* deletePost would remove for it, the records whose postId is the post's id.
C19_ListingAgreesWithScan ==
    \A p \in DOMAIN postStorage :
        LET listed == getCommentsOnPostResult(p).comments
        IN /\ {listed[i] : i \in 1..Len(listed)} = RemovedByScan(p)
           /\ RemovedByScan(p) = {commentStorage[c] : c \in CommentsOf(p)}

\* getCommentsOnPost has just returned the one remaining comment of a post
\* whose other comment was deleted and is still listed; the scan of
\* deletePost would remove that one comment.
C19_Witness ==
    /\ last.op = "getCommentsOnPost" /\ last.res = Ok
    /\ Len(last.comments) = 1
    /\ RemovedByScan(last.id) = {last.comments[1]}
    /\ Len(postStorage[last.id].comments) = 2

\* C20: a post leaves the Post store only in a successful deletePost on it
\* by its owner; a comment leaves the Comment store only in a successful
\* deleteComment on it by its sender or in a successful deletePost of its
\* post by that post's owner.
C20_RemovalAuthority ==
    /\ \A p \in (DOMAIN last.postsBefore) \ (DOMAIN postStorage) :
          /\ last.op = "deletePost" /\ last.id = p /\ last.res = Ok
          /\ last.caller = last.postsBefore[p].owner
    /\ \A c \in (DOMAIN last.commentsBefore) \ (DOMAIN commentStorage) :
          LET comment == last.commentsBefore[c]
          IN \/ /\ last.op = "deleteComment" /\ last.id = c /\ last.res = Ok
                /\ last.caller = comment.sender
             \/ /\ last.op = "deletePost" /\ last.id = comment.postId /\ last.res = Ok
                /\ comment.postId \in DOMAIN last.postsBefore
                /\ last.caller = last.postsBefore[comment.postId].owner

\* The owner of a post has just deleted it, and with it a comment that
\* another principal sent, while a post of the other principal stays.
C20_Witness ==
    /\ last.op = "deletePost" /\ last.res = Ok
    /\ \E c \in (DOMAIN last.commentsBefore) \ (DOMAIN commentStorage) :
          last.commentsBefore[c].sender # last.caller
    /\ \E p \in DOMAIN postStorage : postStorage[p].owner # last.caller

====
